---------------------------- MODULE Spec2Model ----------------------------
(***************************************************************************)
(* Model of the profile-aware RAG orchestrator of backend/utils.py         *)
(* (ProfileDetector, UniversalMetadataHandler, ProfileAwareRAGSystem).     *)
(*                                                                         *)
(* Texts are TLA+ strings, handled character by character with Len,        *)
(* SubSeq and \o.  The module text is ASCII, so the three pictographs of   *)
(* the source are written with stand-ins of the same length in code        *)
(* points: BOOKS for U+1F4DA, TV for U+1F4FA, WARN for U+26A0 U+FE0F.      *)
(***************************************************************************)
EXTENDS Integers, Sequences, FiniteSets, TLC

\* ------------------------------------------------------------------ text

BOOKS == "#"
TV == "@"
WARN == "!!"

\* str.lower() on the letters the model's texts use
LowerChar(c) ==
    CASE c = "A" -> "a" [] c = "B" -> "b" [] c = "C" -> "c" [] c = "D" -> "d"
      [] c = "E" -> "e" [] c = "F" -> "f" [] c = "G" -> "g" [] c = "H" -> "h"
      [] c = "I" -> "i" [] c = "J" -> "j" [] c = "K" -> "k" [] c = "L" -> "l"
      [] c = "M" -> "m" [] c = "N" -> "n" [] c = "O" -> "o" [] c = "P" -> "p"
      [] c = "Q" -> "q" [] c = "R" -> "r" [] c = "S" -> "s" [] c = "T" -> "t"
      [] c = "U" -> "u" [] c = "V" -> "v" [] c = "W" -> "w" [] c = "X" -> "x"
      [] c = "Y" -> "y" [] c = "Z" -> "z" [] OTHER -> c

\* Recursion over a text goes by halves, so that its depth stays small.
RECURSIVE Lower(_)
Lower(s) ==
    IF Len(s) <= 1 THEN LowerChar(s)
    ELSE Lower(SubSeq(s, 1, Len(s) \div 2)) \o Lower(SubSeq(s, Len(s) \div 2 + 1, Len(s)))

CharAt(s, i) == SubSeq(s, i, i)

\* the characters of s at the places in keep, in order
RECURSIVE Pick(_, _, _, _)
Pick(s, keep, lo, hi) ==
    IF lo > hi THEN ""
    ELSE IF lo = hi THEN (IF lo \in keep THEN CharAt(s, lo) ELSE "")
    ELSE Pick(s, keep, lo, (lo + hi) \div 2) \o Pick(s, keep, (lo + hi) \div 2 + 1, hi)

\* the class \s of re, and the characters str.strip() removes
IsSpace(c) == c \in {" ", "\n", "\t"}

IsDigit(c) == c \in {"0", "1", "2", "3", "4", "5", "6", "7", "8", "9"}

IsLowerAlpha(c) ==
    c \in {"a", "b", "c", "d", "e", "f", "g", "h", "i", "j", "k", "l", "m",
           "n", "o", "p", "q", "r", "s", "t", "u", "v", "w", "x", "y", "z"}

\* sub occurs in s at position i
OccursAt(s, sub, i) ==
    /\ i >= 1
    /\ i + Len(sub) - 1 <= Len(s)
    /\ SubSeq(s, i, i + Len(sub) - 1) = sub

\* Python's `sub in s`
Contains(s, sub) == \E i \in 1..(Len(s) - Len(sub) + 1) : OccursAt(s, sub, i)

StartsWith(s, p) == OccursAt(s, p, 1)

EndsWith(s, p) == OccursAt(s, p, Len(s) - Len(p) + 1)

\* number of (possibly overlapping) places where sub occurs in s
Occurrences(s, sub) ==
    Cardinality({i \in 1..(Len(s) - Len(sub) + 1) : OccursAt(s, sub, i)})

SetMin(S) == CHOOSE m \in S : \A n \in S : m <= n

SetMax(S) == CHOOSE m \in S : \A n \in S : m >= n

\* the places of s that hold no whitespace
InkPlaces(s) == {i \in 1..Len(s) : ~IsSpace(CharAt(s, i))}

\* str.strip()
Strip(s) ==
    IF InkPlaces(s) = {} THEN ""
    ELSE SubSeq(s, SetMin(InkPlaces(s)), SetMax(InkPlaces(s)))

\* length of the run of whitespace that ends just before position p
SpaceRunBefore(s, p) ==
    p - 1 - SetMax({0} \cup {i \in 1..(p - 1) : ~IsSpace(CharAt(s, i))})

\* length of the run of non-whitespace characters that starts at p
WordRun(s, p) ==
    SetMin({Len(s) + 1} \cup {i \in p..Len(s) : IsSpace(CharAt(s, i))}) - p

\* length of the run of whitespace that starts at p
SpaceRun(s, p) ==
    SetMin({Len(s) + 1} \cup {i \in p..Len(s) : ~IsSpace(CharAt(s, i))}) - p

\* length of the run of decimal digits that starts at p
DigitRun(s, p) ==
    SetMin({Len(s) + 1} \cup {i \in p..Len(s) : ~IsDigit(CharAt(s, i))}) - p

\* length of the run of [a-z\s] that starts at p
AlphaSpaceRun(s, p) ==
    SetMin({Len(s) + 1}
           \cup {i \in p..Len(s) :
                   ~(IsLowerAlpha(CharAt(s, i)) \/ IsSpace(CharAt(s, i)))}) - p

\* str.split(): the number of whitespace-separated words
WordCount(s) ==
    Cardinality({i \in InkPlaces(s) : i = 1 \/ IsSpace(CharAt(s, i - 1))})

DigitValue(c) ==
    CASE c = "0" -> 0 [] c = "1" -> 1 [] c = "2" -> 2 [] c = "3" -> 3
      [] c = "4" -> 4 [] c = "5" -> 5 [] c = "6" -> 6 [] c = "7" -> 7
      [] c = "8" -> 8 [] c = "9" -> 9

\* int() of a string of decimal digits
RECURSIVE ParseInt(_)
ParseInt(s) ==
    IF s = "" THEN 0
    ELSE 10 * ParseInt(SubSeq(s, 1, Len(s) - 1)) + DigitValue(CharAt(s, Len(s)))

DigitChar(d) == CharAt("0123456789", d + 1)

\* str() of a natural number
RECURSIVE IntToStr(_)
IntToStr(n) == IF n < 10 THEN DigitChar(n) ELSE IntToStr(n \div 10) \o DigitChar(n % 10)

\* ------------------------------------------------------ ProfileDetector

\* the profile table, in declaration order (a dict keeps insertion order)
PROFILE_KEYWORDS ==
    << [profile |-> "doctor",
        keywords |-> <<"doctor", "physician", "medical", "healthcare provider",
                       "clinician", "surgeon", "dentist">>],
       [profile |-> "hr_leader",
        keywords |-> <<"hr", "human resources", "hr manager", "hr director",
                       "chro", "people ops", "talent">>],
       [profile |-> "entrepreneur",
        keywords |-> <<"entrepreneur", "founder", "startup", "business owner",
                       "ceo of startup", "starting business">>],
       [profile |-> "corporate_executive",
        keywords |-> <<"executive", "cxo", "vp", "vice president", "director",
                       "senior leader", "c-suite">>],
       [profile |-> "consultant",
        keywords |-> <<"consultant", "consulting", "advisor", "advisory">>],
       [profile |-> "engineer",
        keywords |-> <<"engineer", "technical lead", "tech professional",
                       "software", "it professional">>],
       [profile |-> "lawyer",
        keywords |-> <<"lawyer", "attorney", "legal", "advocate">>],
       [profile |-> "educator",
        keywords |-> <<"teacher", "professor", "educator", "academic",
                       "principal">>],
       [profile |-> "finance",
        keywords |-> <<"finance", "accountant", "cfo", "financial", "banker">> ] >>

\* the value None of a result that is a dict otherwise
NoProfile == [profile |-> "none"]

\* the hit of a loop that kept going to the last keyword of the last profile
LastKeywordHit(question_lower) ==
    LET hits == {pk \in {<<p, k>> : p \in 1..Len(PROFILE_KEYWORDS), k \in 1..7} :
                   /\ pk[2] <= Len(PROFILE_KEYWORDS[pk[1]].keywords)
                   /\ Contains(question_lower, PROFILE_KEYWORDS[pk[1]].keywords[pk[2]])}
        p == SetMax({pk[1] : pk \in hits})
        k == SetMax({pk[2] : pk \in {h \in hits : h[1] = p}})
    IN  <<p, k>>

\* the nested loop over profiles and their keywords: the first hit returns
KeywordHits(question_lower) ==
    {pk \in {<<p, k>> : p \in 1..Len(PROFILE_KEYWORDS), k \in 1..7} :
        /\ pk[2] <= Len(PROFILE_KEYWORDS[pk[1]].keywords)
        /\ Contains(question_lower, PROFILE_KEYWORDS[pk[1]].keywords[pk[2]])}

FirstKeywordHit(question_lower) ==
    LET hits == KeywordHits(question_lower)
        p == SetMin({pk[1] : pk \in hits})
        k == SetMin({pk[2] : pk \in {h \in hits : h[1] = p}})
    IN  <<p, k>>

\* the prefixes of the four self-identification patterns, in order; each is
\* followed by (?:a|an), one blank and the group ([a-z\s]+)
profession_patterns == <<"i am ", "as ", "i'm ", "working as ">>

\* where the group of pattern `prefix` starts when the pattern matches at i
\* (0 when it does not match there)
GroupStartAt(s, prefix, i) ==
    IF ~OccursAt(s, prefix, i) THEN 0
    ELSE LET a == i + Len(prefix)
         IN  IF OccursAt(s, "a ", a) /\ AlphaSpaceRun(s, a + 2) > 0 THEN a + 2
             ELSE IF OccursAt(s, "an ", a) /\ AlphaSpaceRun(s, a + 3) > 0 THEN a + 3
             ELSE 0

\* re.search(pattern, s): group(1) of the leftmost match, "" when none
\* (a match never has an empty group)
SearchProfession(s, prefix) ==
    LET at == {i \in 1..Len(s) : GroupStartAt(s, prefix, i) > 0}
    IN  IF at = {} THEN ""
        ELSE LET g == GroupStartAt(s, prefix, SetMin(at))
             IN  SubSeq(s, g, g + AlphaSpaceRun(s, g) - 1)

QuestionWords == {"how", "what", "where", "when", "why", "can", "do"}

\* re.split(r'\s+(?:how|what|where|when|why|can|do)', s)[0]
SplitAtQuestionWord(s) ==
    LET at == {i \in 1..Len(s) :
                 /\ IsSpace(CharAt(s, i))
                 /\ \E w \in QuestionWords : OccursAt(s, w, i + SpaceRun(s, i))}
    IN  IF at = {} THEN s ELSE SubSeq(s, 1, SetMin(at) - 1)

\* the profession a pattern yields: group(1).strip(), cut at a question word
ProfessionOf(s, prefix) == SplitAtQuestionWord(Strip(SearchProfession(s, prefix)))

\* a pattern is accepted when it matched and its profession is non-empty and
\* has at most three words
PatternAccepts(s, prefix) ==
    /\ SearchProfession(s, prefix) # ""
    /\ ProfessionOf(s, prefix) # ""
    /\ WordCount(ProfessionOf(s, prefix)) <= 3

detect_profile(question) ==
    LET question_lower == Lower(question)
        ok == {n \in 1..Len(profession_patterns) :
                 PatternAccepts(question_lower, profession_patterns[n])}
    IN  IF KeywordHits(question_lower) # {}
        THEN LET h == FirstKeywordHit(question_lower)
             IN  [profile |-> PROFILE_KEYWORDS[h[1]].profile,
                  confidence |-> "high",
                  detected_keyword |-> PROFILE_KEYWORDS[h[1]].keywords[h[2]]]
        ELSE IF ok # {}
        THEN LET profession == ProfessionOf(question_lower,
                                            profession_patterns[SetMin(ok)])
             IN  [profile |-> "custom",
                  custom_profile |-> profession,
                  confidence |-> "medium",
                  detected_keyword |-> profession]
        ELSE NoProfile

\* ---------------------------------------------- UniversalMetadataHandler

\* A document is [page_content, metadata]; metadata is a record holding the
\* keys that are present (source_file, parent_folder, session_number,
\* facilitator), so that a missing key is a missing field.
HasKey(metadata, key) == key \in DOMAIN metadata

\* str.replace(sub, ''), for a sub that cannot overlap itself (the three
\* suffixes start with their only dot): every occurrence is removed
Remove(s, sub) ==
    Pick(s,
         {i \in 1..Len(s) :
            ~\E j \in (i - Len(sub) + 1)..i : OccursAt(s, sub, j)},
         1, Len(s))

\* re.sub(r'^\d+\.\s*', '', name)
DropOrdinal(name) ==
    LET d == DigitRun(name, 1)
    IN  IF d > 0 /\ OccursAt(name, ".", d + 1)
        THEN SubSeq(name, d + 2 + SpaceRun(name, d + 2), Len(name))
        ELSE name

extract_clean_filename(source_file) ==
    Strip(DropOrdinal(Remove(Remove(Remove(source_file, ".docx"), ".pdf"), ".txt")))

\* any(kw in source_file.lower() for kw in [...])
HasIndicator(source_file, indicators) ==
    \E kw \in indicators : Contains(Lower(source_file), kw)

get_source_reference(doc) ==
    LET metadata == doc.metadata
        source_file == IF HasKey(metadata, "source_file")
                       THEN metadata.source_file ELSE "Unknown"
        parent_folder == IF HasKey(metadata, "parent_folder")
                         THEN metadata.parent_folder ELSE ""
        hasSession == HasKey(metadata, "session_number") /\ metadata.session_number # 0
        hasFacilitator == HasKey(metadata, "facilitator") /\ metadata.facilitator # ""
        clean_name == extract_clean_filename(source_file)
        ref_info == [source_file |-> source_file, clean_name |-> clean_name,
                     parent_folder |-> parent_folder]
    IN  IF hasSession
        THEN ref_info @@
             [type |-> "session",
              reference_text |->
                  "For more details, refer to **Session "
                  \o IntToStr(metadata.session_number)
                  \o (IF hasFacilitator
                      THEN " (Facilitator: " \o metadata.facilitator \o ")" ELSE "")
                  \o "** videos and documentation (PPT/PDF)."]
        ELSE IF parent_folder # "" /\ parent_folder # "lms_content"
        THEN ref_info @@
             [type |-> "folder_content",
              reference_text |->
                  IF HasIndicator(source_file,
                                  {"video", "sawaal", "showcase", "connect", "revision"})
                  THEN "For more details, visit **" \o clean_name \o "** video."
                  ELSE "For more details, refer to **" \o parent_folder \o " - "
                       \o clean_name \o "**."]
        ELSE ref_info @@
             [type |-> "general",
              reference_text |->
                  IF HasIndicator(source_file, {"video", "sawaal", "showcase"})
                  THEN "For more details, visit **" \o clean_name \o "** video."
                  ELSE "For more details, refer to **" \o clean_name \o "**."]

\* ---------------------------------------- ProfileAwareRAGSystem: helpers

reference_keywords ==
    {"source", "reference", "where can i find", "where is this from",
     "which session", "what video", "where to learn more", "more details",
     "show source", "cite", "citation", "what document", "which document"}

_is_asking_for_references(question) ==
    \E keyword \in reference_keywords : Contains(Lower(question), keyword)

\* Optional[str]: None, or a reference text
NoRef == [some |-> FALSE]

SomeRef(text) == [some |-> TRUE, text |-> text]

_get_primary_source_reference(retrieved_docs) ==
    IF retrieved_docs = <<>> THEN NoRef
    ELSE SomeRef(get_source_reference(retrieved_docs[1]).reference_text)

\* s[:n]
Take(s, n) == IF Len(s) <= n THEN s ELSE SubSeq(s, 1, n)

\* sep.join(lines)
RECURSIVE Join(_, _)
Join(lines, sep) ==
    IF lines = <<>> THEN ""
    ELSE IF Len(lines) = 1 THEN lines[1]
    ELSE lines[1] \o sep \o Join(Tail(lines), sep)

\* conversation_history[:10]
FirstTen(conversation_history) ==
    IF Len(conversation_history) <= 10 THEN conversation_history
    ELSE SubSeq(conversation_history, 1, 10)

\* conversation_history[-10:]
LastTen(conversation_history) ==
    IF Len(conversation_history) <= 10 THEN conversation_history
    ELSE SubSeq(conversation_history, Len(conversation_history) - 9,
                Len(conversation_history))

_format_conversation_history(conversation_history) ==
    IF conversation_history = <<>> THEN "No previous conversation."
    ELSE LET recent == LastTen(conversation_history)
             formatted ==
                 [i \in 1..(2 * Len(recent)) |->
                     IF i % 2 = 1
                     THEN "User: " \o recent[(i + 1) \div 2].question
                     ELSE "Assistant: " \o Take(recent[i \div 2].answer, 200) \o "..."]
         IN  Join(formatted, "\n")

\* re.search(r'session\s+(\d+)', question.lower()): 0 when there is no match,
\* else the place where the digits of the leftmost match start
SessionDigitsAt(question_lower) ==
    LET at == {i \in 1..Len(question_lower) :
                 /\ OccursAt(question_lower, "session", i)
                 /\ SpaceRun(question_lower, i + 7) > 0
                 /\ DigitRun(question_lower, i + 7 + SpaceRun(question_lower, i + 7)) > 0}
    IN  IF at = {} THEN 0
        ELSE SetMin(at) + 7 + SpaceRun(question_lower, SetMin(at) + 7)

\* int(session_match.group(1))
SessionNumberOf(question) ==
    LET q == Lower(question)
        d == SessionDigitsAt(q)
    IN  ParseInt(SubSeq(q, d, d + DigitRun(q, d) - 1))

\* --------------------------------------------------- answer post-processing

\* The three boilerplate patterns, each  <pictograph>?\s*<phrase>.*?$  under
\* re.DOTALL | re.IGNORECASE; the phrases are given lower-cased.
patterns ==
    << [mark |-> TV, phrases |-> {"related video resources:"}],
       [mark |-> TV, phrases |-> {"for more details", "for further details"}],
       [mark |-> BOOKS, phrases |-> {"for more details"}] >>

\* the places where one of the phrases occurs, whatever its case
PhrasePlaces(s, phrases) ==
    LET low == Lower(s)
    IN  {p \in 1..Len(s) : \E ph \in phrases : OccursAt(low, ph, p)}

\* where the leftmost match of a pattern starts: at the first phrase, moved
\* back over the whitespace before it and over the pictograph before that
MatchStart(s, pattern) ==
    LET p == SetMin(PhrasePlaces(s, pattern.phrases))
        w == p - SpaceRunBefore(s, p)
    IN  IF OccursAt(s, pattern.mark, w - 1) THEN w - 1 ELSE w

\* re.sub(pattern, '', s): the match runs to the first place where $ holds,
\* the end of the text or just before a newline that ends the text
SubPattern(s, pattern) ==
    IF PhrasePlaces(s, pattern.phrases) = {} THEN s
    ELSE SubSeq(s, 1, MatchStart(s, pattern) - 1)
         \o (IF EndsWith(s, "\n") THEN "\n" ELSE "")

\* for pattern in patterns: answer = re.sub(...).strip()
StripBoilerplate(answer) ==
    Strip(SubPattern(Strip(SubPattern(Strip(SubPattern(answer, patterns[1])),
                                      patterns[2])),
                     patterns[3]))

\* length of the run of newlines that ends at position i
NewlineRunTo(s, i) ==
    i - SetMax({0} \cup {j \in 1..i : CharAt(s, j) # "\n"})

\* re.sub(r'\n\n\n', '\n\n', s), the pattern without its `+`: every third
\* newline of a run goes
CollapseTriplesOnly(s) ==
    Pick(s, {i \in 1..Len(s) : NewlineRunTo(s, i) = 0 \/ NewlineRunTo(s, i) % 3 # 0},
         1, Len(s))

\* re.sub(r'\n\n\n+', '\n\n', s): of every run of newlines the first two stay
CollapseBlankLines(s) ==
    Pick(s, {i \in 1..Len(s) : ~OccursAt(s, "\n\n\n", i - 2)}, 1, Len(s))

\* the citation line appended to an answer
Citation(source_ref) == "\n\n" \o BOOKS \o " " \o source_ref.text

AppendCitation(answer, question, source_ref) ==
    IF _is_asking_for_references(question) /\ source_ref.some
    THEN answer \o Citation(source_ref) ELSE answer

\* a STEP 6 that appends the reference before it strips the boilerplate
PostProcessAppendingFirst(answer, question, source_ref) ==
    Strip(CollapseBlankLines(
        StripBoilerplate(AppendCitation(answer, question, source_ref))))

\* STEP 6 of ask: strip, append the reference when asked for, collapse, trim
PostProcess(answer, question, source_ref) ==
    Strip(CollapseBlankLines(
        AppendCitation(StripBoilerplate(answer), question, source_ref)))

\* str.upper() of a lower-case text
UpperChar(c) ==
    LET low == "abcdefghijklmnopqrstuvwxyz"
        up == "ABCDEFGHIJKLMNOPQRSTUVWXYZ"
        at == {i \in 1..26 : CharAt(low, i) = c}
    IN  IF at = {} THEN c ELSE CharAt(up, SetMin(at))

RECURSIVE Upper(_)
Upper(s) ==
    IF Len(s) <= 1 THEN UpperChar(s)
    ELSE Upper(SubSeq(s, 1, Len(s) \div 2)) \o Upper(SubSeq(s, Len(s) \div 2 + 1, Len(s)))

\* str.replace('_', ' ')
RECURSIVE UnderscoresToBlanks(_)
UnderscoresToBlanks(s) ==
    IF Len(s) <= 1 THEN (IF s = "_" THEN " " ELSE s)
    ELSE UnderscoresToBlanks(SubSeq(s, 1, Len(s) \div 2))
         \o UnderscoresToBlanks(SubSeq(s, Len(s) \div 2 + 1, Len(s)))

\* The profile-context block of the prompt, by its first line (the rest is
\* fixed text that only the generation service reads).  ask spells the
\* method of the custom branch `UPPER`, which str does not have: building
\* the block raises AttributeError there.  ask_stream spells it `upper`.
AttributeError == "'str' object has no attribute 'UPPER'"

BuildProfileContext(mode, profile_info) ==
    IF profile_info = NoProfile
    THEN [raised |-> FALSE, text |-> "USER PROFILE: General professional"]
    ELSE IF profile_info.profile = "custom"
    THEN IF mode = "ask"
         THEN [raised |-> TRUE, error |-> AttributeError]
         ELSE [raised |-> FALSE,
               text |-> "USER PROFILE DETECTED: " \o Upper(profile_info.custom_profile)]
    ELSE [raised |-> FALSE,
          text |-> "USER PROFILE DETECTED: "
                   \o UnderscoresToBlanks(Upper(profile_info.profile))]

\* ------------------------------------------------------------ the inputs

\* the callers, one conversation each
Sessions == {"s1", "s2"}

\* requests accepted in one run of the model
MaxCalls == 2

Questions ==
    {"What is 4T management?",
     "I am a doctor, which session covers this?",
     "I'm a pilot. Cite session 3, not session 5"}

Doc1 ==
    [page_content |-> "4T is Target, Time, Team, Theme.",
     metadata |-> [source_file |-> "3. 4T Management.pdf",
                   parent_folder |-> "lms_content",
                   session_number |-> 3,
                   facilitator |-> "Asha"]]

Doc2 ==
    [page_content |-> "Questions and answers on delegation.",
     metadata |-> [source_file |-> "Sawaal Jawab.docx",
                   parent_folder |-> "Monthly Connect"]]

\* what the retrieval service may answer, best match first
DocLists == {<<>>, <<Doc1>>, <<Doc2, Doc1>>}

\* what the generation service may answer in one piece
RawAnswers ==
    {"Use 4T.", "Use 4T.\n\nFor more details, see the slides."}

\* what the generation service may answer in chunks
Streams ==
    {<<"Use ", "", "4T.">>,
     <<"Use 4T.", "\n\nFor more details, see the slides.">>,
     <<"__HISTORY_UPDATE__: the marker", " ends a stream.">>}

RetrievalError == "retrieval service unavailable"

GenerationError == "generation service unavailable"

\* what a caller may say of itself: a phrase of up to MaxWords words, bare or
\* after "I am a" / "I am an"
MaxWords == 3

Words == {"wax", "candle", "doctor", "medical", "three"}

RECURSIVE PhrasesOf(_)
PhrasesOf(n) ==
    IF n = 1 THEN Words
    ELSE {phrase \o " " \o word : phrase \in PhrasesOf(n - 1), word \in Words}

Phrases == UNION {PhrasesOf(n) : n \in 1..MaxWords}

Openers == {"", "I am a ", "I am an "}

Said == {opener \o phrase : opener \in Openers, phrase \in Phrases}

\* what the metadata of a retrieved document may hold: each key present or
\* not, session numbers from 0 to MaxSession
MaxSession == 2

SourceFiles ==
    {<<>>, [source_file |-> "3. 4T Management.pdf"],
     [source_file |-> "Sawaal Jawab.docx"], [source_file |-> "Revision Notes.pdf"]}

Folders ==
    {<<>>, [parent_folder |-> "lms_content"], [parent_folder |-> "Monthly Connect"]}

SessionNumbers == {<<>>} \cup {[session_number |-> n] : n \in 0..MaxSession}

Facilitators == {<<>>, [facilitator |-> ""], [facilitator |-> "Asha"]}

Metadata ==
    {source_file @@ parent_folder @@ session_number @@ facilitator :
        source_file \in SourceFiles, parent_folder \in Folders,
        session_number \in SessionNumbers, facilitator \in Facilitators}

\* a best match with any metadata, followed by nothing or by one more document
RankedDocLists ==
    {<<[page_content |-> "Notes.", metadata |-> metadata]>> \o rest :
        metadata \in Metadata, rest \in {<<>>, <<Doc1>>, <<Doc2>>}}

\* The answers of the pure helpers to the questions and document lists of
\* the model, computed once.
DetectedProfile == [question \in Questions \cup Said |-> detect_profile(question)]

AskingForReferences ==
    [question \in Questions |-> _is_asking_for_references(question)]

PrimaryReference ==
    [retrieved_docs \in DocLists \cup RankedDocLists |->
        _get_primary_source_reference(retrieved_docs)]

ProfileContext ==
    [mode \in {"ask", "ask_stream"},
     profile_info \in {DetectedProfile[question] : question \in Questions \cup Said} |->
        BuildProfileContext(mode, profile_info)]

\* ------------------------------------------------------------- the state

VARIABLES
    session,    \* per caller: the conversation history list the caller holds
    frame,      \* per caller: the locals of its request in flight
    metrics,    \* self.metrics
    clock,      \* the time, in ticks
    started,    \* requests accepted so far
    tally,      \* what happened so far: queries completed, detections made
    feedback    \* the feedback table, and the last request to /api/feedback
                \* with its response

vars == <<session, frame, metrics, clock, started, tally, feedback>>

\* the table as init_db creates it, no request made yet
NoFeedback ==
    [table |-> <<>>, requests |-> 0, request |-> [kind |-> "none"],
     response |-> [kind |-> "none"]]

IdleFrame ==
    [pc |-> "idle", mode |-> "none", question |-> "", given |-> FALSE,
     conversation_history |-> <<>>, start_time |-> 0,
     profile_info |-> NoProfile, profile_context |-> "",
     service_calls |-> <<>>, retrieved_docs |-> <<>>, source_ref |-> NoRef,
     stream |-> <<>>, delivered |-> <<>>,
     history_text |-> "",
     answer |-> "", full_answer |-> "", out |-> <<>>,
     updated_history |-> <<>>, latency |-> 0, reg |-> 0,
     raised_in |-> "none", result |-> [kind |-> "none"],
     consumed |-> 0, sse_full_answer |-> "", sent |-> <<>>]

\* self.metrics as __init__ leaves it
InitMetrics ==
    [query_count |-> 0, total_latency |-> 0, profile_detected_count |-> 0,
     queries |-> <<>>]

Init ==
    /\ session = [s \in Sessions |-> <<>>]
    /\ frame = [s \in Sessions |-> IdleFrame]
    /\ metrics = InitMetrics
    /\ clock = 0
    /\ started = 0
    /\ tally = [completed |-> 0, completed_detected |-> 0, detections |-> 0]
    /\ feedback = NoFeedback

\* ----------------------------------------------------- the except clauses

ErrorMarker == WARN \o " Error: "

\* a handler that records the failed turn
AskErrorResultRecordingTurn(conversation_history, e) ==
    [kind |-> "return", answer |-> ErrorMarker \o e,
     updated_history |->
         Append(conversation_history,
                [question |-> "", answer |-> ErrorMarker \o e, timestamp |-> 0])]

\* what ask returns from its except clause
AskErrorResult(conversation_history, e) ==
    [kind |-> "return", answer |-> ErrorMarker \o e,
     updated_history |-> conversation_history]

\* an except clause that reports the failure as a history update
StreamErrorAsHistoryUpdate(e) ==
    [site |-> "marker", text |-> "__HISTORY_UPDATE__:0"]

\* what ask_stream yields from its except clause
StreamErrorChunk(e) == [site |-> "error", text |-> "\n\n" \o ErrorMarker \o e]

\* the frame once the except clause has handled exception e raised in `stage`
Caught(f, stage, e) ==
    IF f.mode = "ask"
    THEN [f EXCEPT !.pc = "failed", !.raised_in = stage,
                   !.result = AskErrorResult(f.conversation_history, e)]
    ELSE [f EXCEPT !.pc = "failed", !.raised_in = stage,
                   !.out = Append(@, StreamErrorChunk(e)),
                   !.result = [kind |-> "end"]]

\* ------------------------------------------------------------ the history

NewTurn(question, answer, timestamp) ==
    [question |-> question, answer |-> answer, timestamp |-> timestamp]

\* a history that starts over with the new turn
ExtendHistoryDroppingTurns(conversation_history, turn) == <<turn>>

\* a history kept on the orchestrator, one for all callers: the questions it
\* has logged, then the turn
ExtendSharedHistory(conversation_history, turn) ==
    [i \in 1..Len(metrics.queries) |->
        [question |-> metrics.queries[i].question, answer |-> "",
         timestamp |-> metrics.queries[i].timestamp]] \o <<turn>>

\* conversation_history + [turn]: the new list
ExtendHistory(conversation_history, turn) == Append(conversation_history, turn)

\* conversation_history += [turn], or .append(turn): the operand grows
OperandAfterAppendInPlace(conversation_history, turn) ==
    Append(conversation_history, turn)

\* conversation_history + [turn]: the operand, which `+` leaves as it was
OperandAfterConcat(conversation_history, turn) == conversation_history

\* ------------------------------------------------------------- the steps

Others(s) == Sessions \ {s}

\* a caller calls ask or ask_stream; one that holds no turns yet may leave
\* conversation_history out
Call(s, mode, question, given) ==
    /\ frame[s].pc = "idle"
    /\ started < MaxCalls
    /\ ~given => session[s] = <<>>
    /\ frame' = [frame EXCEPT ![s] =
                   [IdleFrame EXCEPT !.pc = "profile-detection",
                                     !.mode = mode,
                                     !.question = question,
                                     !.given = given,
                                     !.conversation_history =
                                         IF given THEN session[s] ELSE <<>>,
                                     !.start_time = clock + 1]]
    /\ clock' = clock + 1
    /\ started' = started + 1
    /\ UNCHANGED <<session, metrics, tally, feedback>>

\* requests served one at a time
Start(s) ==
    /\ \A t \in Others(s) : frame[t].pc = "idle"
    /\ \E mode \in {"ask", "ask_stream"}, question \in Questions, given \in BOOLEAN :
          Call(s, mode, question, given)

\* detect_profile, and the load of  profile_detected_count += 1
DetectProfile(s) ==
    LET f == frame[s]
        profile_info == DetectedProfile[f.question]
    IN  /\ f.pc = "profile-detection"
        /\ IF profile_info = NoProfile
           THEN /\ frame' = [frame EXCEPT ![s] =
                               [f EXCEPT !.profile_context =
                                             ProfileContext[f.mode, profile_info].text,
                                         !.pc = "retrieval"]]
                /\ UNCHANGED <<tally, feedback>>
           ELSE /\ frame' = [frame EXCEPT ![s] =
                               [f EXCEPT !.profile_info = profile_info,
                                         !.reg = metrics.profile_detected_count,
                                         !.pc = "store-profile-count"]]
                /\ tally' = [tally EXCEPT !.detections = @ + 1]
        /\ UNCHANGED <<session, metrics, clock, started, feedback>>

\* the store of  profile_detected_count += 1, then the profile context
StoreProfileCount(s) ==
    LET f == frame[s]
        ctx == ProfileContext[f.mode, f.profile_info]
    IN  /\ f.pc = "store-profile-count"
        /\ metrics' = [metrics EXCEPT !.profile_detected_count = f.reg + 1]
        /\ frame' = [frame EXCEPT ![s] =
                       IF ctx.raised
                       THEN Caught(f, "profile-detection", ctx.error)
                       ELSE [f EXCEPT !.profile_context = ctx.text,
                                      !.pc = "retrieval"]]
        /\ UNCHANGED <<session, clock, started, tally, feedback>>

\* the call to the retrieval service a question leads to
RetrievalCall(question) ==
    IF SessionDigitsAt(Lower(question)) > 0
    THEN [service |-> "similarity_search", k |-> 8,
          filter |-> SessionNumberOf(question)]
    ELSE [service |-> "retriever"]

RetrievalCallFor == [question \in Questions |-> RetrievalCall(question)]

\* the document lists the service may answer a call with
RetrievalAnswers(call) ==
    IF call.service = "similarity_search"
    THEN {docs \in DocLists :
            \A i \in 1..Len(docs) :
                /\ HasKey(docs[i].metadata, "session_number")
                /\ docs[i].metadata.session_number = call.filter}
    ELSE DocLists

Retrieve(s) ==
    LET f == frame[s]
        call == RetrievalCallFor[f.question]
    IN  /\ f.pc = "retrieval"
        /\ \E docs \in RetrievalAnswers(call) :
              frame' = [frame EXCEPT ![s] =
                          [f EXCEPT !.service_calls = Append(@, call),
                                    !.retrieved_docs = docs,
                                    !.pc = "context-assembly"]]
        /\ UNCHANGED <<session, metrics, clock, started, tally, feedback>>

RetrievalFails(s) ==
    LET f == frame[s]
    IN  /\ f.pc = "retrieval"
        /\ frame' = [frame EXCEPT ![s] =
                       Caught([f EXCEPT !.service_calls =
                                            Append(@, RetrievalCallFor[f.question])],
                              "retrieval", RetrievalError)]
        /\ UNCHANGED <<session, metrics, clock, started, tally, feedback>>

\* a context assembly that leaves the primary reference for later
AssembleWithoutReference(s) ==
    LET f == frame[s]
    IN  /\ f.pc = "context-assembly"
        /\ \E chunks \in (IF f.mode = "ask" THEN {<<>>} ELSE Streams) :
              frame' = [frame EXCEPT ![s] =
                          [f EXCEPT !.history_text =
                                        _format_conversation_history(
                                            f.conversation_history),
                                    !.service_calls =
                                        IF f.mode = "ask" THEN @
                                        ELSE Append(@, [service |-> "stream"]),
                                    !.stream = chunks,
                                    !.pc = "generation"]]
        /\ UNCHANGED <<session, metrics, clock, started, tally, feedback>>

\* the primary reference and the prompt, with the conversation as the chain
\* renders it; in streaming mode the chain is opened, and `stream` is what
\* the service is to deliver if it does not fail
AssembleContext(s) ==
    LET f == frame[s]
    IN  /\ f.pc = "context-assembly"
        /\ \E chunks \in (IF f.mode = "ask" THEN {<<>>} ELSE Streams) :
              frame' = [frame EXCEPT ![s] =
                          [f EXCEPT !.source_ref =
                                        PrimaryReference[f.retrieved_docs],
                                    !.history_text =
                                        _format_conversation_history(
                                            f.conversation_history),
                                    !.service_calls =
                                        IF f.mode = "ask" THEN @
                                        ELSE Append(@, [service |-> "stream"]),
                                    !.stream = chunks,
                                    !.pc = "generation"]]
        /\ UNCHANGED <<session, metrics, clock, started, tally, feedback>>

\* chain.invoke({})
Generate(s) ==
    LET f == frame[s]
    IN  /\ f.pc = "generation"
        /\ f.mode = "ask"
        /\ \E raw \in RawAnswers :
              frame' = [frame EXCEPT ![s] =
                          [f EXCEPT !.service_calls = Append(@, [service |-> "complete"]),
                                    !.answer = raw,
                                    !.pc = "post-processing"]]
        /\ UNCHANGED <<session, metrics, clock, started, tally, feedback>>

\* the generation service raises: at once, or at any pull of the stream
GenerationFails(s) ==
    LET f == frame[s]
    IN  /\ f.pc = "generation"
        /\ frame' = [frame EXCEPT ![s] = Caught(f, "generation", GenerationError)]
        /\ UNCHANGED <<session, metrics, clock, started, tally, feedback>>

\* STEP 6 of ask, the new history, and the load of  query_count += 1
PostProcessAnswer(s) ==
    LET f == frame[s]
        answer == PostProcess(f.answer, f.question, f.source_ref)
        turn == NewTurn(f.question, answer, clock + 1)
    IN  /\ f.pc = "post-processing"
        /\ frame' = [frame EXCEPT ![s] =
                       [f EXCEPT !.answer = answer,
                                 !.updated_history =
                                     ExtendHistory(f.conversation_history, turn),
                                 !.latency = clock + 1 - f.start_time,
                                 !.reg = metrics.query_count,
                                 !.pc = "store-query-count"]]
        /\ session' = [session EXCEPT ![s] =
                         IF f.given THEN OperandAfterConcat(@, turn) ELSE @]
        /\ clock' = clock + 1
        /\ UNCHANGED <<metrics, started, tally, feedback>>

\* a loop that keeps the chunks to itself until the stream has ended
HoldChunk(out, chunk) == out

\* the body of  for chunk in chain.stream({}): an empty chunk is skipped
ForwardChunk(out, chunk) ==
    IF chunk # "" THEN Append(out, [site |-> "chunk", text |-> chunk]) ELSE out

Accumulate(full_answer, chunk) ==
    IF chunk # "" THEN full_answer \o chunk ELSE full_answer

StreamChunk(s) ==
    LET f == frame[s]
        chunk == Head(f.stream)
    IN  /\ f.pc = "generation"
        /\ f.mode = "ask_stream"
        /\ f.stream # <<>>
        /\ frame' = [frame EXCEPT ![s] =
                       [f EXCEPT !.stream = Tail(@),
                                 !.delivered = Append(@, chunk),
                                 !.full_answer = Accumulate(@, chunk),
                                 !.out = ForwardChunk(@, chunk)]]
        /\ UNCHANGED <<session, metrics, clock, started, tally, feedback>>

\* what ask_stream yields once the stream has ended
CitationChunks(question, source_ref) ==
    IF AskingForReferences[question] /\ source_ref.some
    THEN << [site |-> "citation", text |-> Citation(source_ref)] >>
    ELSE << >>

HistoryMarker(updated_history) ==
    [site |-> "marker",
     text |-> "__HISTORY_UPDATE__:" \o IntToStr(Len(updated_history))]

\* the end of the stream: the reference, the new history, the marker, and
\* the load of  query_count += 1
StreamFinish(s) ==
    LET f == frame[s]
        turn == NewTurn(f.question, f.full_answer, clock + 1)
        updated_history == ExtendHistory(f.conversation_history, turn)
    IN  /\ f.pc = "generation"
        /\ f.mode = "ask_stream"
        /\ f.stream = <<>>
        /\ frame' = [frame EXCEPT ![s] =
                       [f EXCEPT !.out = @ \o CitationChunks(f.question, f.source_ref)
                                           \o <<HistoryMarker(updated_history)>>,
                                 !.updated_history = updated_history,
                                 !.latency = clock + 1 - f.start_time,
                                 !.reg = metrics.query_count,
                                 !.pc = "store-query-count"]]
        /\ session' = [session EXCEPT ![s] =
                         IF f.given THEN OperandAfterConcat(@, turn) ELSE @]
        /\ clock' = clock + 1
        /\ UNCHANGED <<metrics, started, tally, feedback>>

\* the store of  query_count += 1
StoreQueryCount(s) ==
    LET f == frame[s]
    IN  /\ f.pc = "store-query-count"
        /\ metrics' = [metrics EXCEPT !.query_count = f.reg + 1]
        /\ frame' = [frame EXCEPT ![s] = [f EXCEPT !.pc = "load-latency"]]
        /\ UNCHANGED <<session, clock, started, tally, feedback>>

\* the load of  total_latency += latency
LoadLatency(s) ==
    LET f == frame[s]
    IN  /\ f.pc = "load-latency"
        /\ frame' = [frame EXCEPT ![s] =
                       [f EXCEPT !.reg = metrics.total_latency,
                                 !.pc = "store-latency"]]
        /\ UNCHANGED <<session, metrics, clock, started, tally, feedback>>

\* the store of  total_latency += latency
StoreLatency(s) ==
    LET f == frame[s]
    IN  /\ f.pc = "store-latency"
        /\ metrics' = [metrics EXCEPT !.total_latency = f.reg + f.latency]
        /\ frame' = [frame EXCEPT ![s] = [f EXCEPT !.pc = "log-query"]]
        /\ UNCHANGED <<session, clock, started, tally, feedback>>

\* question[:50] + '...'
LogQuestion(question) ==
    SubSeq(question, 1, IF Len(question) < 50 THEN Len(question) ELSE 50) \o "..."

QueryLogEntry(f, timestamp) ==
    [timestamp |-> timestamp,
     question |-> LogQuestion(f.question),
     profile |-> IF f.profile_info = NoProfile THEN "general"
                 ELSE f.profile_info.profile,
     latency |-> f.latency]

\* metrics['queries'].append(...), and the return
LogQuery(s) ==
    LET f == frame[s]
    IN  /\ f.pc = "log-query"
        /\ metrics' = [metrics EXCEPT !.queries = Append(@, QueryLogEntry(f, clock))]
        /\ frame' = [frame EXCEPT ![s] =
                       [f EXCEPT !.pc = "done",
                                 !.result =
                                     IF f.mode = "ask"
                                     THEN [kind |-> "return", answer |-> f.answer,
                                           updated_history |-> f.updated_history]
                                     ELSE [kind |-> "end"]]]
        /\ tally' = [tally EXCEPT
                       !.completed = @ + 1,
                       !.completed_detected =
                           IF f.profile_info = NoProfile THEN @ ELSE @ + 1]
        /\ UNCHANGED <<session, clock, started, feedback>>

\* the caller takes the result: the caller of ask keeps updated_history as
\* its conversation; ask_stream hands no history back
Return(s) ==
    LET f == frame[s]
    IN  /\ f.pc \in {"done", "failed"}
        /\ session' = [session EXCEPT ![s] =
                         IF f.mode = "ask" THEN f.result.updated_history ELSE @]
        /\ frame' = [frame EXCEPT ![s] = IdleFrame]
        /\ UNCHANGED <<metrics, clock, started, tally, feedback>>

\* 10 ** places
Pow10(places) == IF places = 1 THEN 10 ELSE 100

\* the decimals of a fixed-point text, zero-padded
Decimals(n, places) ==
    IF places = 2 /\ n < 10 THEN "0" \o IntToStr(n) ELSE IntToStr(n)

\* f"{num / den:.<places>f}" for naturals: the nearest decimal, a tie going
\* to the even digit
FormatFixed(num, den, places) ==
    LET whole == (Pow10(places) * num) \div den
        rest == (Pow10(places) * num) % den
        scaled == IF 2 * rest > den \/ (2 * rest = den /\ whole % 2 = 1)
                  THEN whole + 1 ELSE whole
    IN  IntToStr(scaled \div Pow10(places)) \o "."
        \o Decimals(scaled % Pow10(places), places)

\* queries[-5:]
LastFive(queries) ==
    SubSeq(queries, IF Len(queries) > 5 THEN Len(queries) - 4 ELSE 1, Len(queries))

\* get_metrics(): it reads the counters and changes nothing
get_metrics ==
    IF metrics.query_count = 0 THEN metrics
    ELSE [total_queries |-> metrics.query_count,
          profile_detected |-> metrics.profile_detected_count,
          detection_rate |->
              FormatFixed(100 * metrics.profile_detected_count,
                          metrics.query_count, 1) \o "%",
          average_latency |->
              FormatFixed(metrics.total_latency, metrics.query_count, 2) \o "s",
          total_time |-> FormatFixed(metrics.total_latency, 1, 2) \o "s",
          recent_queries |-> LastFive(metrics.queries)]

\* one step of the request of caller s
Step(s) ==
    \/ DetectProfile(s)
    \/ StoreProfileCount(s)
    \/ Retrieve(s)
    \/ RetrievalFails(s)
    \/ AssembleContext(s)
    \/ Generate(s)
    \/ GenerationFails(s)
    \/ PostProcessAnswer(s)
    \/ StreamChunk(s)
    \/ StreamFinish(s)
    \/ StoreQueryCount(s)
    \/ LoadLatency(s)
    \/ StoreLatency(s)
    \/ LogQuery(s)
    \/ Return(s)

Next == \E s \in Sessions : Start(s) \/ Step(s)

Spec == Init /\ [][Next]_vars

\* the questions in which the detector finds one of its named profiles
QuestionsWithNamedProfile ==
    {question \in Questions :
        DetectedProfile[question].profile \notin {"none", "custom"}}

\* requests that overlap: a caller need not wait for the others; each opens
\* a conversation with a question that touches both counters
StartOverlapping(s) ==
    \E mode \in {"ask", "ask_stream"}, question \in QuestionsWithNamedProfile :
        Call(s, mode, question, FALSE)

NextConc == \E s \in Sessions : StartOverlapping(s) \/ Step(s)

SpecConc == Init /\ [][NextConc]_vars

\* ----------------------------------------------------------- properties

IsPrefix(h, g) == Len(h) <= Len(g) /\ SubSeq(g, 1, Len(h)) = h

\* the history a request was given: the caller's list, or none
GivenHistory(s) == IF frame[s].given THEN session[s] ELSE <<>>

\* C1: whenever a step of ask raises, ask returns (it does not raise) an
\* answer that begins with the error marker and, as updated_history, the
\* history it was given, without the failed turn.
C1_AskFailureReturnsGivenHistory ==
    \A s \in Sessions :
        (frame[s].mode = "ask" /\ frame[s].pc = "failed") =>
            /\ frame[s].result.kind = "return"
            /\ StartsWith(frame[s].result.answer, WARN \o " Error: ")
            /\ frame[s].result.updated_history = GivenHistory(s)

\* an ask given a history of at least one turn has failed in retrieval
C1_Witness ==
    \E s \in Sessions :
        /\ frame[s].mode = "ask"
        /\ frame[s].pc = "failed"
        /\ frame[s].raised_in = "retrieval"
        /\ frame[s].given
        /\ Len(session[s]) >= 1

\* C2: a successful ask returns the history it was given followed by one
\* new turn holding the question and the returned answer; as callers feed
\* updated_history back, a conversation only grows at its end, by one turn
\* per successful ask.
C2_SuccessfulAskAppendsOneTurn ==
    [][\A s \in Sessions :
          /\ IsPrefix(session[s], session'[s])
          /\ (frame[s].mode = "ask" /\ frame[s].pc = "done" /\ frame'[s].pc = "idle") =>
                /\ frame[s].result.kind = "return"
                /\ frame[s].result.updated_history = session'[s]
                /\ Len(session'[s]) = Len(GivenHistory(s)) + 1
                /\ SubSeq(session'[s], 1, Len(GivenHistory(s))) = GivenHistory(s)
                /\ session'[s][Len(session'[s])].question = frame[s].question
                /\ session'[s][Len(session'[s])].answer = frame[s].result.answer
                /\ DOMAIN session'[s][Len(session'[s])]
                       = {"question", "answer", "timestamp"}]_vars

\* a conversation of two turns, the second asked after the first
C2_Witness ==
    \E s \in Sessions :
        /\ Len(session[s]) = 2
        /\ session[s][1].timestamp < session[s][2].timestamp

\* C3: ask and ask_stream leave the caller's history list as it was passed,
\* and the history a call builds is the one passed to it, alone or followed
\* by the turn of its own question: nothing of earlier calls is in it.
C3_CallerHistoryUntouched ==
    \A s \in Sessions :
        LET f == frame[s]
        IN  f.pc # "idle" =>
              /\ f.given => session[s] = f.conversation_history
              /\ f.pc \in {"store-query-count", "load-latency", "store-latency",
                           "log-query", "done"} =>
                    /\ Len(f.updated_history) = Len(GivenHistory(s)) + 1
                    /\ SubSeq(f.updated_history, 1, Len(GivenHistory(s))) = GivenHistory(s)
                    /\ f.updated_history[Len(f.updated_history)].question = f.question
              /\ (f.pc = "failed" /\ f.mode = "ask") =>
                    f.result.updated_history = GivenHistory(s)

\* a streamed request given a one-turn history is done, while another
\* caller holds a conversation of its own
C3_Witness ==
    \E s \in Sessions :
        /\ frame[s].pc = "done"
        /\ frame[s].mode = "ask_stream"
        /\ frame[s].given
        /\ Len(session[s]) = 1
        /\ Len(frame[s].updated_history) = 2

\* C4: ask reaches the failed state only through a failure of the retrieval
\* or the generation service, never through profile detection or the
\* building of the profile context.
C4_AskFailsOnlyInServices ==
    \A s \in Sessions :
        (frame[s].mode = "ask" /\ frame[s].pc = "failed") =>
            frame[s].raised_in \in {"retrieval", "generation"}

\* ------------------------------------------------------ the streaming mode

\* a caller starts a streamed request
StartStream(s) ==
    /\ \A t \in Others(s) : frame[t].pc = "idle"
    /\ \E question \in Questions, given \in BOOLEAN :
          Call(s, "ask_stream", question, given)

\* one step of a streamed request: the consumer pulls the generator
StepStream(s) ==
    \/ DetectProfile(s)
    \/ StoreProfileCount(s)
    \/ Retrieve(s)
    \/ RetrievalFails(s)
    \/ AssembleContext(s)
    \/ GenerationFails(s)
    \/ StreamChunk(s)
    \/ StreamFinish(s)
    \/ StoreQueryCount(s)
    \/ LoadLatency(s)
    \/ StoreLatency(s)
    \/ LogQuery(s)
    \/ Return(s)

NextStream == \E s \in Sessions : StartStream(s) \/ StepStream(s)

\* the consumer of a stream keeps pulling until the generator is exhausted
SpecStream == Init /\ [][NextStream]_vars /\ WF_vars(NextStream)

RECURSIVE Concat(_)
Concat(texts) ==
    IF texts = <<>> THEN "" ELSE Head(texts) \o Concat(Tail(texts))

\* the chunks a streamed request has yielded at the given sites
YieldedAt(s, sites) ==
    LET AtSite(c) == c.site \in sites
    IN  SelectSeq(frame[s].out, AtSite)

Texts(chunks) == [i \in 1..Len(chunks) |-> chunks[i].text]

NonEmpty(texts) ==
    LET Full(t) == t # ""
    IN  SelectSeq(texts, Full)

\* how a streamed request has ended, if it has
TerminalChunkShape(s) ==
    LET f == frame[s]
        terminal == YieldedAt(s, {"marker", "error"})
        last == f.out[Len(f.out)]
    IN  /\ Len(terminal) <= 1
        /\ Len(terminal) = 1 => last = terminal[1]
        /\ f.pc \in {"store-query-count", "load-latency", "store-latency",
                      "log-query", "done"} =>
              /\ Len(terminal) = 1
              /\ last.site = "marker"
              /\ last.text = "__HISTORY_UPDATE__:"
                                \o IntToStr(Len(GivenHistory(s)) + 1)
        /\ f.pc = "failed" =>
              /\ Len(terminal) = 1
              /\ last.site = "error"
              /\ StartsWith(last.text, "\n\n" \o WARN \o " Error: ")
              /\ f.result = [kind |-> "end"]
        /\ f.pc \in {"done", "failed"} => f.result = [kind |-> "end"]

\* C5: every streamed request ends, without raising, and ends with exactly
\* one terminal chunk, its last: the history-update marker with the length
\* of the new history when the pipeline succeeded, an error text when a step
\* failed, also after answer chunks were yielded; never both.
C5_StreamEndsWithOneTerminalChunk ==
    /\ [](\A s \in Sessions :
             frame[s].mode = "ask_stream" => TerminalChunkShape(s))
    /\ \A s \in Sessions :
          (frame[s].mode = "ask_stream") ~> (frame[s].pc \in {"done", "failed"})

\* a streamed request has failed after it yielded a chunk of the answer
C5_Witness ==
    \E s \in Sessions :
        /\ frame[s].mode = "ask_stream"
        /\ frame[s].pc = "failed"
        /\ frame[s].raised_in = "generation"
        /\ Len(YieldedAt(s, {"chunk"})) >= 1
        /\ YieldedAt(s, {"marker"}) = <<>>

\* C6: at every moment of a streamed request the answer chunks it has
\* yielded are the non-empty chunks the generation service has delivered so
\* far, each once and in the order of arrival, so none is held back while
\* the next is pulled; and the text it has accumulated is their
\* concatenation.
C6_ChunksForwardedAsTheyArrive ==
    \A s \in Sessions :
        frame[s].mode = "ask_stream" =>
            /\ Texts(YieldedAt(s, {"chunk"})) = NonEmpty(frame[s].delivered)
            /\ frame[s].full_answer = Concat(Texts(YieldedAt(s, {"chunk"})))

\* two chunks were yielded and an empty one skipped, the stream still open
C6_Witness ==
    \E s \in Sessions :
        /\ frame[s].mode = "ask_stream"
        /\ frame[s].pc = "generation"
        /\ Len(frame[s].delivered) = 3
        /\ Len(YieldedAt(s, {"chunk"})) = 2
        /\ frame[s].full_answer = "Use 4T."

\* ------------------------------------------------- answers to post-process

\* pieces a raw answer is put together from
MaxParts == 3

\* among them a reference text of the document store, so that a raw answer
\* may itself hold a citation line
Pieces ==
    {"Use 4T.", " ", "\n\n\n\n", BOOKS, TV,
     PrimaryReference[<<Doc1>>].text, "FOR FURTHER DETAILS",
     "Related Video Resources:"}

\* what the generation service may return: any text
RawTexts ==
    {Concat(parts) : parts \in UNION {[1..n -> Pieces] : n \in 0..MaxParts}}

\* the questions whose ask gets as far as generation
QuestionsAnswered ==
    {question \in Questions : ~ProfileContext["ask", DetectedProfile[question]].raised}

\* the frame of ask(question) when chain.invoke has returned `raw` for the
\* documents `docs`
FrameAtPostProcessing(question, docs, raw) ==
    [IdleFrame EXCEPT
        !.pc = "post-processing", !.mode = "ask", !.question = question,
        !.start_time = 1,
        !.profile_info = IF DetectedProfile[question] = NoProfile THEN @
                         ELSE DetectedProfile[question],
        !.profile_context = ProfileContext["ask", DetectedProfile[question]].text,
        !.service_calls = <<RetrievalCallFor[question], [service |-> "complete"]>>,
        !.retrieved_docs = docs,
        !.source_ref = PrimaryReference[docs],
        !.history_text = _format_conversation_history(<<>>),
        !.answer = raw]

InitPost ==
    \E question \in QuestionsAnswered, raw \in RawTexts :
    \E docs \in RetrievalAnswers(RetrievalCallFor[question]) :
    LET detections == IF DetectedProfile[question] = NoProfile THEN 0 ELSE 1
    IN  /\ session = [s \in Sessions |-> <<>>]
        /\ frame = [s \in Sessions |->
                       IF s = "s1" THEN FrameAtPostProcessing(question, docs, raw)
                       ELSE IdleFrame]
        /\ metrics = [InitMetrics EXCEPT !.profile_detected_count = detections]
        /\ clock = 1
        /\ started = 1
        /\ tally = [completed |-> 0, completed_detected |-> 0,
                    detections |-> detections]
        /\ feedback = NoFeedback

NextPost == \E s \in Sessions : PostProcessAnswer(s)

SpecPost == InitPost /\ [][NextPost]_vars

\* ask has post-processed its answer
PostProcessed(s) ==
    frame[s].mode = "ask" /\ frame[s].pc = "store-query-count"

\* the answer is to carry the reference
Cited(s) == AskingForReferences[frame[s].question] /\ frame[s].source_ref.some

CitationLine(source_ref) == BOOKS \o " " \o source_ref.text

\* no reference text of the document store is cited in the answer
NoCitationIn(answer) ==
    \A docs \in DocLists :
        PrimaryReference[docs].some =>
            ~Contains(answer, CitationLine(PrimaryReference[docs]))

\* C7, as the specification states it: the final answer of ask ends with a
\* blank line and the citation line, which occurs once, exactly when the
\* question asks for references and a primary reference exists; otherwise
\* it holds no citation.
C7_CitationFollowsBlankLine ==
    \A s \in Sessions :
        PostProcessed(s) =>
            IF Cited(s)
            THEN /\ EndsWith(frame[s].answer,
                             "\n\n" \o CitationLine(frame[s].source_ref))
                 /\ Occurrences(frame[s].answer,
                                CitationLine(frame[s].source_ref)) = 1
            ELSE NoCitationIn(frame[s].answer)

\* C7, amended: the final answer of ask ends with the citation line, which
\* occurs once, exactly when the question asks for references and a primary
\* reference exists; the line follows a blank line after the text that the
\* stripping left, and is the whole answer when the stripping left nothing.
\* Otherwise the answer holds no citation.  The stripping never removes the
\* appended line, although the reference texts start with a stripped phrase.
C7_CitationAppendedAfterStripping ==
    \A s \in Sessions :
        LET answer == frame[s].answer
            line == CitationLine(frame[s].source_ref)
            body == SubSeq(answer, 1, Len(answer) - Len(line))
        IN  PostProcessed(s) =>
              IF Cited(s)
              THEN /\ EndsWith(answer, line)
                   /\ Occurrences(answer, line) = 1
                   /\ \/ body = ""
                      \/ /\ EndsWith(body, "\n\n")
                         /\ Strip(body) = SubSeq(body, 1, Len(body) - 2)
                         /\ Strip(body) # ""
                   /\ StartsWith(Lower(frame[s].source_ref.text), "for more details")
              ELSE NoCitationIn(answer)

\* the stripping left nothing of the raw answer: the citation is the answer
C7_Witness ==
    \E s \in Sessions :
        /\ PostProcessed(s)
        /\ Cited(s)
        /\ frame[s].answer = CitationLine(frame[s].source_ref)

\* C8: with a question that asks for no reference, post-processing an
\* answer that ask has post-processed returns the same text.
C8_PostProcessingIdempotent ==
    \A s \in Sessions :
        (PostProcessed(s) /\ ~AskingForReferences[frame[s].question]) =>
            PostProcess(frame[s].answer, frame[s].question, frame[s].source_ref)
                = frame[s].answer

\* an answer that kept a pictograph and a blank line, no reference asked for
C8_Witness ==
    \E s \in Sessions :
        /\ PostProcessed(s)
        /\ ~AskingForReferences[frame[s].question]
        /\ frame[s].source_ref.some
        /\ Contains(frame[s].answer, "Use 4T.\n\n" \o TV)

AllIdle == \A s \in Sessions : frame[s].pc = "idle"

\* C9: when N queries have succeeded, M of them with a detected profile,
\* query_count is N and profile_detected_count is M, and get_metrics gives
\* the detection rate M/N*100 to one decimal.
C9_MetricsCountSuccessfulQueries ==
    AllIdle =>
        /\ metrics.query_count = tally.completed
        /\ metrics.profile_detected_count = tally.completed_detected
        /\ tally.completed > 0 =>
              get_metrics.detection_rate
                  = FormatFixed(100 * tally.completed_detected, tally.completed, 1)
                    \o "%"

\* C10: when all requests have finished, overlapping or not, query_count is
\* the number of requests that succeeded and profile_detected_count the
\* number of detections made: no increment is lost.
C10_NoIncrementLost ==
    AllIdle =>
        /\ metrics.query_count = tally.completed
        /\ metrics.profile_detected_count = tally.detections

\* ------------------------------------------------- sessions side by side

\* the question each caller asks, and the conversation it holds
Asks ==
    [s \in Sessions |->
        IF s = "s1" THEN "I am a doctor, which session covers this?"
        ELSE "What is 4T management?"]

Holds ==
    [s \in Sessions |->
        IF s = "s1"
        THEN <<NewTurn("What is delegation?", "Handing over a task.", 0)>>
        ELSE <<>>]

InitSessions ==
    /\ session = Holds
    /\ frame = [s \in Sessions |-> IdleFrame]
    /\ metrics = InitMetrics
    /\ clock = 0
    /\ started = 0
    /\ tally = [completed |-> 0, completed_detected |-> 0, detections |-> 0]
    /\ feedback = NoFeedback

\* each caller sends one request, with its conversation, whatever the other
\* caller is doing
StartBeside(s) ==
    /\ started < Cardinality(Sessions)
    /\ session[s] = Holds[s]
    /\ \E mode \in {"ask", "ask_stream"} : Call(s, mode, Asks[s], TRUE)

NextSessions == \E s \in Sessions : StartBeside(s) \/ Step(s)

SpecSessions == InitSessions /\ [][NextSessions]_vars

\* what ask(question, history) returns when the services answer docs and raw
AskAlone(question, history, docs, raw) ==
    LET answer == PostProcess(raw, question, PrimaryReference[docs])
    IN  [answer |-> answer,
         turns |-> [i \in 1..Len(history) + 1 |->
                       IF i <= Len(history)
                       THEN [question |-> history[i].question,
                             answer |-> history[i].answer]
                       ELSE [question |-> question, answer |-> answer]]]

\* the chunks ask_stream(question, history) yields when the services answer
\* docs and the chunks delivered
StreamAlone(question, history, docs, delivered) ==
    (LET Full(t) == t # "" IN SelectSeq(delivered, Full))
    \o (IF AskingForReferences[question] /\ PrimaryReference[docs].some
        THEN <<"\n\n" \o BOOKS \o " " \o PrimaryReference[docs].text>>
        ELSE <<>>)
    \o <<"__HISTORY_UPDATE__:" \o IntToStr(Len(history) + 1)>>

\* question and answer of the turns of a history
Content(history) ==
    [i \in 1..Len(history) |->
        [question |-> history[i].question, answer |-> history[i].answer]]

\* C11: whatever the other caller does meanwhile, a request returns what it
\* would return alone with its own question, its own history and the answers
\* the services gave it: the answer and the turns of ask, the chunks of
\* ask_stream; and no step of one caller touches the conversation or the
\* request of the other.
C11_SessionsDoNotInterfere ==
    /\ [](\A s \in Sessions :
            LET f == frame[s]
            IN  /\ f.pc # "idle" =>
                      /\ f.question = Asks[s]
                      /\ f.conversation_history = Holds[s]
                /\ (f.pc = "done" /\ f.mode = "ask") =>
                      \E raw \in RawAnswers :
                          /\ f.result.answer
                                 = AskAlone(Asks[s], Holds[s], f.retrieved_docs, raw).answer
                          /\ Content(f.result.updated_history)
                                 = AskAlone(Asks[s], Holds[s], f.retrieved_docs, raw).turns
                /\ (f.pc = "done" /\ f.mode = "ask_stream") =>
                      [i \in 1..Len(f.out) |-> f.out[i].text]
                          = StreamAlone(Asks[s], Holds[s], f.retrieved_docs, f.delivered)
                /\ (f.pc = "failed" /\ f.mode = "ask") =>
                      f.result.updated_history = Holds[s])
    /\ [][\A s \in Sessions :
            frame'[s] # frame[s] =>
                \A t \in Others(s) :
                    frame'[t] = frame[t] /\ session'[t] = session[t]]_vars

\* both callers are done, their requests having overlapped
C11_Witness ==
    /\ \A s \in Sessions : frame[s].pc = "done"
    /\ frame["s1"].mode = "ask"
    /\ frame["s2"].mode = "ask_stream"
    /\ frame["s2"].start_time < frame["s1"].start_time
    /\ Len(frame["s1"].result.updated_history) = 2
    /\ Len(frame["s2"].updated_history) = 1

\* ------------------------------------------------------ profile detection

\* the locals of a request that is about to call detect_profile(question)
FrameAtProfileDetection(mode, question) ==
    [IdleFrame EXCEPT !.pc = "profile-detection", !.mode = mode,
                      !.question = question, !.start_time = 1]

InitDetect ==
    \E mode \in {"ask", "ask_stream"}, question \in Said :
        /\ session = [s \in Sessions |-> <<>>]
        /\ frame = [s \in Sessions |->
                       IF s = "s1" THEN FrameAtProfileDetection(mode, question)
                       ELSE IdleFrame]
        /\ metrics = InitMetrics
        /\ clock = 1
        /\ started = 1
        /\ tally = [completed |-> 0, completed_detected |-> 0, detections |-> 0]
        /\ feedback = NoFeedback

NextDetect == \E s \in Sessions : DetectProfile(s) \/ StoreProfileCount(s)

SpecDetect == InitDetect /\ [][NextDetect]_vars

\* the frames in which detect_profile has returned
Detected(f) == f.pc \notin {"idle", "profile-detection"}

\* the profiles of the table that have a keyword occurring in the text, and
\* the keywords of a profile that occur in it, by their places in the table
ProfilesNamedIn(text) ==
    {p \in 1..Len(PROFILE_KEYWORDS) :
        \E k \in 1..Len(PROFILE_KEYWORDS[p].keywords) :
            Contains(text, PROFILE_KEYWORDS[p].keywords[k])}

KeywordsNamedIn(text, p) ==
    {k \in 1..Len(PROFILE_KEYWORDS[p].keywords) :
        Contains(text, PROFILE_KEYWORDS[p].keywords[k])}

\* C12: when the lower-cased question contains a keyword of the table, the
\* profile detected is the earliest profile of the table with a keyword in
\* the question, with confidence high and the first keyword of that
\* profile's list that occurs in the question; a custom profile is detected
\* only when no keyword of the table occurs in the question.
C12_EarliestProfileFirstKeyword ==
    \A s \in Sessions :
        LET f == frame[s]
            named == ProfilesNamedIn(Lower(f.question))
        IN  Detected(f) =>
              /\ named # {} =>
                    \E p \in named, k \in 1..7 :
                        /\ \A other \in named : p <= other
                        /\ k \in KeywordsNamedIn(Lower(f.question), p)
                        /\ \A other \in KeywordsNamedIn(Lower(f.question), p) : k <= other
                        /\ f.profile_info =
                              [profile |-> PROFILE_KEYWORDS[p].profile,
                               confidence |-> "high",
                               detected_keyword |-> PROFILE_KEYWORDS[p].keywords[k]]
              /\ f.profile_info.profile = "custom" => named = {}

\* "three medical doctor": hr occurs first in the text and belongs to the
\* second profile, medical comes before doctor in the text and after it in
\* the list; the question opens with a self-identification
C12_Witness ==
    /\ frame["s1"].question = "I am a three medical doctor"
    /\ frame["s1"].pc = "retrieval"
    /\ frame["s1"].profile_info.profile = "doctor"
    /\ frame["s1"].profile_info.detected_keyword = "doctor"

\* C13: for a question "I am a X" or "I am an X", X of at most three words,
\* in which no keyword of the table occurs, the profile detected is custom,
\* its custom_profile is X and its confidence is medium.
C13_SelfIdentificationKept ==
    \A s \in Sessions :
        LET f == frame[s]
        IN  \A opener \in {"I am a ", "I am an "}, phrase \in Phrases :
                ( /\ Detected(f)
                  /\ f.question = opener \o phrase
                  /\ WordCount(phrase) <= 3
                  /\ ProfilesNamedIn(Lower(f.question)) = {} )
                => /\ f.profile_info.profile = "custom"
                   /\ f.profile_info.custom_profile = Lower(phrase)
                   /\ f.profile_info.confidence = "medium"

\* ---------------------------------------------------- the primary reference

\* the locals of a request whose retrieval has returned retrieved_docs
FrameAtContextAssembly(mode, question, conversation_history, retrieved_docs) ==
    [IdleFrame EXCEPT
        !.pc = "context-assembly", !.mode = mode, !.question = question,
        !.given = TRUE, !.conversation_history = conversation_history,
        !.start_time = 1,
        !.profile_context = ProfileContext[mode, DetectedProfile[question]].text,
        !.service_calls = <<RetrievalCallFor[question]>>,
        !.retrieved_docs = retrieved_docs]

InitRefs ==
    \E mode \in {"ask", "ask_stream"}, retrieved_docs \in RankedDocLists :
        /\ session = [s \in Sessions |-> <<>>]
        /\ frame = [s \in Sessions |->
                       IF s = "s1"
                       THEN FrameAtContextAssembly(mode, "What is 4T management?",
                                                   <<>>, retrieved_docs)
                       ELSE IdleFrame]
        /\ metrics = InitMetrics
        /\ clock = 1
        /\ started = 1
        /\ tally = [completed |-> 0, completed_detected |-> 0, detections |-> 0]
        /\ feedback = NoFeedback

NextRefs == \E s \in Sessions : AssembleContext(s)

SpecRefs == InitRefs /\ [][NextRefs]_vars

\* the text of a session reference
SessionReference(metadata) ==
    "For more details, refer to **Session " \o IntToStr(metadata.session_number)
    \o (IF HasKey(metadata, "facilitator") /\ metadata.facilitator # ""
        THEN " (Facilitator: " \o metadata.facilitator \o ")" ELSE "")
    \o "** videos and documentation (PPT/PDF)."

\* C14: the primary reference is that of the first retrieved document alone;
\* its kind is session, with the session text, when the document has a
\* session number, whatever the number and the folder; else folder when the
\* document has a parent folder other than the default one; else general.
C14_ReferenceOfFirstDocument ==
    \A s \in Sessions :
        LET f == frame[s]
            first == f.retrieved_docs[1]
        IN  (f.pc = "generation" /\ f.retrieved_docs # <<>>) =>
              /\ f.source_ref = PrimaryReference[<<first>>]
              /\ IF HasKey(first.metadata, "session_number")
                 THEN /\ get_source_reference(first).type = "session"
                      /\ f.source_ref = SomeRef(SessionReference(first.metadata))
                 ELSE IF /\ HasKey(first.metadata, "parent_folder")
                         /\ first.metadata.parent_folder \notin {"", "lms_content"}
                 THEN get_source_reference(first).type = "folder_content"
                 ELSE get_source_reference(first).type = "general"

\* ------------------------------------------------ the conversation rendered

\* conversations of up to MaxTurns turns, with answers of one length each
MaxTurns == 12

AnswerLengths == {0, 7, 200, 201, 230}

RECURSIVE Repeat(_, _)
Repeat(s, n) == IF n = 0 THEN "" ELSE s \o Repeat(s, n - 1)

AnswerOf(i, length) ==
    Take(IntToStr(i) \o ". " \o Repeat("4T is Target, Time, Team, Theme; ", 8), length)

Histories ==
    {[i \in 1..n |-> NewTurn("q" \o IntToStr(i), AnswerOf(i, length), i)] :
        n \in 0..MaxTurns, length \in AnswerLengths}

InitHistory ==
    \E mode \in {"ask", "ask_stream"}, conversation_history \in Histories :
        /\ session = [s \in Sessions |->
                         IF s = "s1" THEN conversation_history ELSE <<>>]
        /\ frame = [s \in Sessions |->
                       IF s = "s1"
                       THEN FrameAtContextAssembly(mode, "What is 4T management?",
                                                   conversation_history, <<Doc1>>)
                       ELSE IdleFrame]
        /\ metrics = InitMetrics
        /\ clock = 1
        /\ started = 1
        /\ tally = [completed |-> 0, completed_detected |-> 0, detections |-> 0]
        /\ feedback = NoFeedback

NextHistory == \E s \in Sessions : AssembleContext(s)

SpecHistory == InitHistory /\ [][NextHistory]_vars

\* the lines of a text
LinesOf(text) ==
    LET breaks == {i \in 1..Len(text) : CharAt(text, i) = "\n"}
        starts == {1} \cup {i + 1 : i \in breaks}
        EndOf(start) == SetMin({i \in breaks \cup {Len(text) + 1} : i >= start}) - 1
        Nth(k) == CHOOSE start \in starts :
                      Cardinality({other \in starts : other < start}) = k - 1
    IN  [k \in 1..Cardinality(starts) |->
            IF EndOf(Nth(k)) < Nth(k) THEN "" ELSE SubSeq(text, Nth(k), EndOf(Nth(k)))]

\* C15: the conversation rendered for the prompt is "No previous
\* conversation." when the history is empty; for a history of n turns it is
\* the last min(n, 10) turns in their order, each as a line "User: " with the
\* question and a line "Assistant: " with at most the first 200 characters of
\* the answer and an ellipsis, and nothing else.
C15_LastTenTurnsRendered ==
    \A s \in Sessions :
        LET f == frame[s]
            h == f.conversation_history
            n == Len(h)
            shown == IF n < 10 THEN n ELSE 10
            lines == LinesOf(f.history_text)
        IN  f.pc = "generation" =>
              IF n = 0 THEN f.history_text = "No previous conversation."
              ELSE /\ Len(lines) = 2 * shown
                   /\ \A j \in 1..shown :
                         /\ lines[2 * j - 1] = "User: " \o h[n - shown + j].question
                         /\ \E length \in 0..200 :
                               /\ length = Len(h[n - shown + j].answer) \/ length = 200
                               /\ length <= Len(h[n - shown + j].answer)
                               /\ lines[2 * j] =
                                     "Assistant: "
                                     \o Take(h[n - shown + j].answer, length) \o "..."

\* twelve turns with answers of 230 characters: the first two are left out
\* and the answers shown are cut
C15_Witness ==
    LET f == frame["s1"]
    IN  /\ f.pc = "generation"
        /\ Len(f.conversation_history) = 12
        /\ Len(f.conversation_history[12].answer) = 230
        /\ Len(LinesOf(f.history_text)) = 20
        /\ LinesOf(f.history_text)[1] = "User: q3"
        /\ Len(LinesOf(f.history_text)[20]) = 214

\* ------------------------------------------------- the transport boundary

\* main.py serves each request by calling the orchestrator of the process
\* (rag_system, set at startup). Of a request in flight, `sent` is what has
\* gone to the client: the response of /api/chat, or the events of
\* /api/chat/stream; `consumed` counts the chunks event_generator has pulled
\* and sse_full_answer is its local full_answer.

\* a client posts to /api/chat or /api/chat/stream; the request model gives
\* conversation_history a default, so the orchestrator is always given one
Post(s) ==
    /\ \A t \in Others(s) : frame[t].pc = "idle"
    /\ \E mode \in {"ask", "ask_stream"}, question \in Questions :
          Call(s, mode, question, TRUE)

\* the body of chat once ask has come back: the response, or the exception
\* turned into a 500
ChatResponse(result) ==
    IF result.kind = "raise"
    THEN [status |-> 500, detail |-> result.error]
    ELSE [status |-> 200, answer |-> result.answer,
          updated_history |-> result.updated_history]

chat(s) ==
    LET f == frame[s]
    IN  /\ f.mode = "ask"
        /\ f.pc \in {"done", "failed"}
        /\ f.sent = <<>>
        /\ frame' = [frame EXCEPT ![s] =
                       [f EXCEPT !.sent = <<ChatResponse(f.result)>>]]
        /\ UNCHANGED <<session, metrics, clock, started, tally, feedback>>

\* chunk.startswith("__HISTORY_UPDATE__:")
Withheld(chunk) == StartsWith(chunk.text, "__HISTORY_UPDATE__:")

\* one turn of the loop of event_generator, on the chunk it has pulled
event_generator_chunk(s) ==
    LET f == frame[s]
        chunk == f.out[f.consumed + 1]
    IN  /\ f.mode = "ask_stream"
        /\ f.consumed < Len(f.out)
        /\ frame' = [frame EXCEPT ![s] =
                       IF Withheld(chunk)
                       THEN [f EXCEPT !.consumed = @ + 1]
                       ELSE [f EXCEPT !.consumed = @ + 1,
                                      !.sse_full_answer = @ \o chunk.text,
                                      !.sent = Append(@, [event |-> "message",
                                                          chunk |-> chunk.text])]]
        /\ UNCHANGED <<session, metrics, clock, started, tally, feedback>>

\* what event_generator sends when the loop is over: done, or error when the
\* generator raised
LastEvent(result, full_answer) ==
    IF result.kind = "raise"
    THEN [event |-> "error", error |-> result.error]
    ELSE [event |-> "done", full_answer |-> full_answer]

Ended(f) == f.sent # <<>> /\ f.sent[Len(f.sent)].event \in {"done", "error"}

event_generator_end(s) ==
    LET f == frame[s]
    IN  /\ f.mode = "ask_stream"
        /\ f.pc \in {"done", "failed"}
        /\ f.consumed = Len(f.out)
        /\ ~Ended(f)
        /\ frame' = [frame EXCEPT ![s] =
                       [f EXCEPT !.sent =
                                     Append(@, LastEvent(f.result, f.sse_full_answer))]]
        /\ UNCHANGED <<session, metrics, clock, started, tally, feedback>>

\* the request has been answered
Served(f) == IF f.mode = "ask" THEN f.sent # <<>> ELSE Ended(f)

\* a step of the orchestrator under a handler: ask runs to its end inside
\* chat; ask_stream runs when event_generator pulls it, that is when every
\* chunk yielded so far has been taken; the request is over once answered
Serve(s) ==
    /\ frame[s].consumed = Len(frame[s].out)
    /\ frame[s].pc \in {"done", "failed"} => Served(frame[s])
    /\ Step(s)

NextTransport ==
    \E s \in Sessions :
        Post(s) \/ Serve(s) \/ chat(s) \/ event_generator_chunk(s) \/ event_generator_end(s)

SpecTransport == Init /\ [][NextTransport]_vars

\* C16: when the pipeline of a request has failed, /api/chat answers with an
\* HTTP error and /api/chat/stream ends with an error event; the failure is
\* not sent as a normal answer, that is a 200 response, or message events
\* followed by done.
C16_FailureSentAsError ==
    \A s \in Sessions :
        LET f == frame[s]
        IN  (f.pc = "failed" /\ Served(f)) =>
              IF f.mode = "ask"
              THEN f.sent[1].status >= 400
              ELSE /\ f.sent[Len(f.sent)].event = "error"
                   /\ \A i \in 1..Len(f.sent) : f.sent[i].event # "done"

\* the answer-content chunks a streamed request has yielded
ContentChunks(f) ==
    LET AtSite(c) == c.site \in {"chunk", "citation"}
    IN  SelectSeq(f.out, AtSite)

\* C20: of the chunks ask_stream yields, only its history-update message is
\* kept from the client: the message events sent are the answer-content
\* chunks yielded (generation chunks, whatever they start with, and the
\* citation chunk), in order, and the full_answer of the done event is their
\* concatenation.
C20_OnlyControlMessageWithheld ==
    \A s \in Sessions :
        LET f == frame[s]
            IsMessage(e) == e.event = "message"
            messages == SelectSeq(f.sent, IsMessage)
        IN  (f.mode = "ask_stream" /\ f.pc = "done" /\ Served(f)) =>
              /\ [i \in 1..Len(messages) |-> messages[i].chunk]
                    = Texts(ContentChunks(f))
              /\ f.sent[Len(f.sent)].event = "done"
              /\ f.sent[Len(f.sent)].full_answer = Concat(Texts(ContentChunks(f)))

\* ------------------------------------------------------ the service calls

RetrievalCalls(f) ==
    LET Retrieval(call) == call.service \in {"similarity_search", "retriever"}
    IN  SelectSeq(f.service_calls, Retrieval)

GenerationCalls(f) ==
    LET Generation(call) == call.service \in {"complete", "stream"}
    IN  SelectSeq(f.service_calls, Generation)

\* C17: a query, in either mode, calls the retrieval service exactly once:
\* the similarity search with k = 8 filtered to the first session number N
\* cited as "session N" in the lower-cased question, or else the default
\* retriever; when the call fails the query fails with no second retrieval
\* call and no generation call.
C17_OneRetrievalCallPerQuery ==
    \A s \in Sessions :
        LET f == frame[s]
        IN  /\ Len(RetrievalCalls(f)) <= 1
            /\ f.pc \in {"done", "failed"} =>
                  RetrievalCalls(f) =
                      << IF SessionDigitsAt(Lower(f.question)) > 0
                         THEN [service |-> "similarity_search", k |-> 8,
                               filter |-> SessionNumberOf(f.question)]
                         ELSE [service |-> "retriever"] >>
            /\ (f.pc = "failed" /\ f.raised_in = "retrieval") =>
                  /\ GenerationCalls(f) = <<>>
                  /\ f.delivered = <<>>
                  /\ f.retrieved_docs = <<>>

\* ------------------------------------------------------- the two modes

\* C18: what ask_stream delivers is what ask returns: for the question,
\* documents and generated text of a streamed request, the concatenation of
\* its answer-content chunks is the post-processed answer (boilerplate
\* stripped, citation appended when asked for, blank lines collapsed) that
\* ask returns for them.
C18_StreamedAnswerIsPostProcessed ==
    \A s \in Sessions :
        LET f == frame[s]
        IN  (f.mode = "ask_stream" /\ f.pc = "done") =>
              Concat(Texts(ContentChunks(f)))
                  = PostProcess(Concat(f.delivered), f.question,
                                PrimaryReference[f.retrieved_docs])

\* C19: the answer of the new history turn is the whole answer delivered:
\* the answer returned by ask; in streaming mode the concatenation of the
\* content chunks yielded before the history-update marker, the citation
\* chunk included.
C19_TurnHoldsDeliveredAnswer ==
    \A s \in Sessions :
        LET f == frame[s]
        IN  f.pc = "done" =>
              IF f.mode = "ask"
              THEN f.result.updated_history[Len(f.result.updated_history)].answer
                       = f.result.answer
              ELSE f.updated_history[Len(f.updated_history)].answer
                       = Concat(Texts(ContentChunks(f)))

\* ------------------------------------------------ the metrics of a failure

\* the latencies of the queries logged, added up
RECURSIVE LoggedLatency(_)
LoggedLatency(queries) ==
    IF queries = <<>> THEN 0
    ELSE queries[1].latency + LoggedLatency(Tail(queries))

\* C21: only completed queries change the metrics: when a query has failed,
\* in either mode and at whatever step, query_count, total_latency,
\* profile_detected_count and the log of queries are those of the queries
\* completed, and profile_detected_count never exceeds query_count.
C21_FailedQueryLeavesMetrics ==
    /\ metrics.profile_detected_count <= metrics.query_count
    /\ \A s \in Sessions :
          frame[s].pc = "failed" =>
              /\ metrics.query_count = tally.completed
              /\ Len(metrics.queries) = tally.completed
              /\ metrics.total_latency = LoggedLatency(metrics.queries)
              /\ metrics.profile_detected_count = tally.completed_detected

\* ------------------------------------------------------ the log of queries

\* the orchestrator after n successful queries, n up to MaxLogged
MaxLogged == 5

\* the entries get_metrics shows
RecentQueries == 5

PastQueries(n) ==
    [i \in 1..n |->
        [timestamp |-> 3 * i,
         question |-> LogQuestion("I am a doctor, which session covers this?"),
         profile |-> "doctor",
         latency |-> 2]]

InitLog ==
    \E n \in 0..MaxLogged :
        /\ session = [s \in Sessions |-> <<>>]
        /\ frame = [s \in Sessions |-> IdleFrame]
        /\ metrics = [query_count |-> n, total_latency |-> 2 * n,
                      profile_detected_count |-> n, queries |-> PastQueries(n)]
        /\ clock = 3 * n
        /\ started = 0
        /\ tally = [completed |-> n, completed_detected |-> n, detections |-> n]
        /\ feedback = NoFeedback

\* one more query, in either mode, of a caller that opens a conversation
StartLogged(s) ==
    /\ \A t \in Others(s) : frame[t].pc = "idle"
    /\ \E mode \in {"ask", "ask_stream"} :
          Call(s, mode, "I am a doctor, which session covers this?", FALSE)

NextLog == \E s \in Sessions : StartLogged(s) \/ Step(s)

SpecLog == InitLog /\ [][NextLog]_vars

\* C22: the log of queries kept in the metrics is a bounded trailing log:
\* however many queries have succeeded, metrics['queries'] holds no more
\* than a fixed number of entries, the most recent ones.
C22_QueryLogBounded ==
    /\ Len(metrics.queries) <= RecentQueries
    /\ \A i \in 1..Len(metrics.queries) :
          \A j \in 1..Len(metrics.queries) :
              i < j => metrics.queries[i].timestamp < metrics.queries[j].timestamp

\* ------------------------------------------------------------- the feedback

\* requests to /api/feedback served, at most
MaxFeedback == 3

\* the ratings a client may send (any string passes the request model)
Ratings == {"positive", "negative", "neutral", ""}

CommitError == "database is locked"

\* HTTPException(status_code, detail), and str() of it
HTTPException(status_code, detail) ==
    [kind |-> "HTTPException", status_code |-> status_code, detail |-> detail]

StrOfException(e) ==
    IF e.kind = "HTTPException" THEN IntToStr(e.status_code) \o ": " \o e.detail
    ELSE e.detail

\* the response FastAPI sends for an HTTPException that leaves the handler
ErrorResponse(e) == [kind |-> "error", status |-> e.status_code, detail |-> e.detail]

\* the except clause of submit_feedback: whatever was raised in the try
\* block, the HTTPException of the rating check included, becomes a 500
FeedbackExcept(e) == HTTPException(500, StrOfException(e))

\* the row db.add and db.commit store; the id is given by the table
FeedbackRow(table, request) ==
    [id |-> Len(table) + 1, session_id |-> request.session_id,
     message_id |-> request.message_id, rating |-> request.rating]

\* POST /api/feedback: the whole handler
submit_feedback(s) ==
    /\ feedback.requests < MaxFeedback
    /\ \E rating \in Ratings, committed \in BOOLEAN :
          LET request == [kind |-> "FeedbackRequest", session_id |-> s,
                          message_id |-> "m" \o IntToStr(feedback.requests + 1),
                          rating |-> rating]
              row == FeedbackRow(feedback.table, request)
          IN  feedback' =
                  IF rating \notin {"positive", "negative"}
                  THEN [feedback EXCEPT
                          !.requests = @ + 1,
                          !.request = request,
                          !.response =
                              ErrorResponse(FeedbackExcept(
                                  HTTPException(400,
                                      "Rating must be 'positive' or 'negative'")))]
                  ELSE IF ~committed
                  THEN [feedback EXCEPT
                          !.requests = @ + 1,
                          !.request = request,
                          !.response =
                              ErrorResponse(FeedbackExcept(
                                  [kind |-> "OperationalError",
                                   detail |-> CommitError]))]
                  ELSE [feedback EXCEPT
                          !.requests = @ + 1,
                          !.request = request,
                          !.table = Append(@, row),
                          !.response =
                              [kind |-> "FeedbackResponse", status |-> 200,
                               success |-> TRUE,
                               message |-> "Feedback submitted successfully",
                               feedback_id |-> row.id]]
    /\ UNCHANGED <<session, frame, metrics, clock, started, tally>>

NextFeedback == \E s \in Sessions : submit_feedback(s)

SpecFeedback == Init /\ [][NextFeedback]_vars

\* C23: a request to submit_feedback whose rating is neither positive nor
\* negative is answered with status 400 and the detail "Rating must be
\* 'positive' or 'negative'", and no record of it is stored; every record
\* of the table has a rating that is positive or negative.
C23_RatingValidated ==
    /\ \A i \in 1..Len(feedback.table) :
          feedback.table[i].rating \in {"positive", "negative"}
    /\ ( /\ feedback.request.kind = "FeedbackRequest"
         /\ feedback.request.rating \notin {"positive", "negative"} )
       => /\ feedback.response.status = 400
          /\ feedback.response.detail = "Rating must be 'positive' or 'negative'"
          /\ \A i \in 1..Len(feedback.table) :
                feedback.table[i].message_id # feedback.request.message_id

\* ------------------------------------------- the reference and generation

\* the generation service has been invoked for the request
GenerationInvoked(f) ==
    \/ f.pc = "post-processing"
    \/ f.delivered # <<>>
    \/ f.raised_in = "generation"
    \/ f.pc \in {"store-query-count", "load-latency", "store-latency",
                 "log-query", "done"}

\* C24: when the generation service is invoked the retrieval call has been
\* made and the primary reference is that of the documents retrieved; it
\* changes at no later step of the request; the citation appended to the
\* answer of ask, or yielded by ask_stream, is the one of that reference,
\* whatever text was generated.
C24_ReferenceResolvedBeforeGeneration ==
    /\ [](\A s \in Sessions :
            LET f == frame[s]
                resolved == PrimaryReference[f.retrieved_docs]
            IN  /\ GenerationInvoked(f) =>
                      /\ Len(RetrievalCalls(f)) = 1
                      /\ f.source_ref = resolved
                /\ (f.pc = "done" /\ f.mode = "ask") =>
                      IF AskingForReferences[f.question] /\ resolved.some
                      THEN EndsWith(f.answer, "\n\n" \o CitationLine(resolved))
                      ELSE NoCitationIn(f.answer)
                /\ (f.pc = "done" /\ f.mode = "ask_stream") =>
                      Texts(YieldedAt(s, {"citation"}))
                          = IF AskingForReferences[f.question] /\ resolved.some
                            THEN <<"\n\n" \o CitationLine(resolved)>>
                            ELSE <<>>)
    /\ [][\A s \in Sessions :
            frame'[s].source_ref # frame[s].source_ref =>
                \/ frame[s].pc = "context-assembly" /\ frame'[s].pc = "generation"
                \/ frame'[s].pc = "idle"]_vars

\* a streamed answer that ends with the citation of the best match of two
\* documents, and an answer of ask cited alike after another generated text
C24_Witness ==
    \E s \in Sessions :
        /\ frame[s].pc = "done"
        /\ frame[s].retrieved_docs = <<Doc2, Doc1>>
        /\ frame[s].source_ref = SomeRef(get_source_reference(Doc2).reference_text)
        /\ frame[s].mode = "ask_stream"
        /\ frame[s].delivered = <<"Use 4T.", "\n\nFor more details, see the slides.">>
        /\ Texts(YieldedAt(s, {"citation"}))
              = <<"\n\n" \o CitationLine(PrimaryReference[<<Doc2, Doc1>>])>>

\* ------------------------------------------------ the general reference

\* C25: for a first document with no session number and no parent folder
\* other than the default one, the reference text is "For more details,
\* visit **<clean name>** video." when the lower-cased source filename
\* contains one of video, sawaal, showcase, connect, revision, and "For more
\* details, refer to **<clean name>**." otherwise.
C25_GeneralKindVideoIndicators ==
    \A s \in Sessions :
        LET f == frame[s]
            metadata == f.retrieved_docs[1].metadata
            source_file == IF HasKey(metadata, "source_file")
                           THEN metadata.source_file ELSE "Unknown"
        IN  ( /\ f.pc = "generation"
              /\ f.retrieved_docs # <<>>
              /\ ~HasKey(metadata, "session_number")
              /\ HasKey(metadata, "parent_folder") =>
                     metadata.parent_folder \in {"", "lms_content"} )
            => f.source_ref =
                 SomeRef(IF \E kw \in {"video", "sawaal", "showcase", "connect",
                                        "revision"} :
                                Contains(Lower(source_file), kw)
                         THEN "For more details, visit **"
                              \o extract_clean_filename(source_file) \o "** video."
                         ELSE "For more details, refer to **"
                              \o extract_clean_filename(source_file) \o "**.")

=============================================================================
